---- MODULE Spec2Model ----
(***************************************************************************)
(* Model of the video downloader's two route handlers:                     *)
(*   Analyze  (src/src/app/api/analyze/route.ts, POST) builds the catalog  *)
(*            of download options from the provider's rendition list;      *)
(*   Download (src/unnamed/part_001, POST) routes a chosen option to the   *)
(*            standard relay, the audio-only relay or the ffmpeg mux       *)
(*            pipeline and streams the result.                             *)
(*                                                                         *)
(* Spec explores both handlers on every short rendition list, SpecRelay    *)
(* and SpecMux the transfers of a sample video (SpecTransfer both kinds,   *)
(* SpecMuxFair the mux under fair scheduling), SpecDetails the duration    *)
(* and count formatting of Analyze, SpecSizes its size texts.              *)
(*                                                                         *)
(* Strings whose characters the code inspects or builds (labels, keys,     *)
(* titles, error messages, formatted durations and counts)                 *)
(* are sequences of one-character strings, so that template strings are    *)
(* concatenations and the regular expression of extractResolution is a     *)
(* scan.  Strings that are only compared as a whole ("mp4") are TLA+       *)
(* strings.  A JavaScript number that may be undefined is an integer or    *)
(* Undefined.                                                              *)
(***************************************************************************)
EXTENDS Integers, Sequences, FiniteSets, TLC

\* ------------------------------------------------------------------ bounds
\* Longest rendition list the provider returns.
MaxFormats == 3
\* Longest rendition list of a video for which downloads are explored.
MaxServed == 2
\* Most chunks a source stream or the muxer emits in one transfer.
MaxChunks == 3

\* ------------------------------------------------------- JavaScript values
\* The value of a missing numeric field (format.bitrate, option.itag, ...).
Undefined == -1
\* A missing or empty string field (format.qualityLabel of an audio stream).
NoLabel == <<>>

\* JavaScript truthiness of a number that may be undefined.
Truthy(n) == n # Undefined /\ n # 0
\* a > b on numbers that may be undefined: a comparison with NaN is false.
JsGt(a, b) == a # Undefined /\ b # Undefined /\ a > b
\* (n || 0)
OrZero(n) == IF Truthy(n) THEN n ELSE 0

\* ----------------------------------------------------------------- strings
L720p == <<"7", "2", "0", "p">>
L1080p == <<"1", "0", "8", "0", "p">>
L1080p60 == <<"1", "0", "8", "0", "p", "6", "0">>
StrCombined == <<"_", "c", "o", "m", "b", "i", "n", "e", "d">>
StrHigh == <<"_", "h", "i", "g", "h">>
StrAudioOnlyKey == <<"a", "u", "d", "i", "o", "_", "o", "n", "l", "y">>
StrAudioOnly == <<"A", "u", "d", "i", "o", " ", "O", "n", "l", "y">>
StrHighQuality ==
    <<" ", "(", "H", "i", "g", "h", " ", "Q", "u", "a", "l", "i", "t", "y", ")">>

IsDigit(c) == c \in {"0", "1", "2", "3", "4", "5", "6", "7", "8", "9"}
DigitVal(c) ==
    CASE c = "0" -> 0 [] c = "1" -> 1 [] c = "2" -> 2 [] c = "3" -> 3
      [] c = "4" -> 4 [] c = "5" -> 5 [] c = "6" -> 6 [] c = "7" -> 7
      [] c = "8" -> 8 [] c = "9" -> 9

\* Number.parseInt(s, 10) of a string of digits.
RECURSIVE ParseInt(_)
ParseInt(s) ==
    IF s = <<>> THEN 0
    ELSE 10 * ParseInt(SubSeq(s, 1, Len(s) - 1)) + DigitVal(s[Len(s)])

\* qualityLabel.match(/(\d+)p/): the leftmost run of digits that is followed
\* by "p"; its digits parsed, or 0 when nothing matches.
extractResolution(qualityLabel) ==
    LET n == Len(qualityLabel)
        \* <<i, j>>: qualityLabel[i..j] are digits and qualityLabel[j+1] = "p"
        Matches == {ij \in (1..n) \X (1..n) :
                      /\ ij[1] <= ij[2]
                      /\ ij[2] < n
                      /\ \A k \in ij[1]..ij[2] : IsDigit(qualityLabel[k])
                      /\ qualityLabel[ij[2] + 1] = "p"}
    IN IF Matches = {} THEN 0
       ELSE LET first == CHOOSE ij \in Matches :
                            \A o \in Matches : ij[1] <= o[1]
            IN ParseInt(SubSeq(qualityLabel, first[1], first[2]))

\* ------------------------------------------------------------ size estimate
\* estimates[resolution] || 10
estimateVideoSize(resolution) ==
    CASE resolution = 144 -> 2
      [] resolution = 240 -> 4
      [] resolution = 360 -> 8
      [] resolution = 480 -> 15
      [] resolution = 720 -> 25
      [] resolution = 1080 -> 50
      [] resolution = 1440 -> 80
      [] resolution = 2160 -> 150
      [] OTHER -> 10

\* The template string `~${n} MB`.
SizeText(n) == <<"~", n, " MB">>

\* A plausible slip: the audio add-on counted for every option.
EstimateWithAudio(resolution, isHighQuality) ==
    SizeText(estimateVideoSize(resolution) + 3)
estimateFileSize(resolution, isHighQuality) ==
    LET videoSize == estimateVideoSize(resolution)
        audioSize == 3
        totalSize == IF isHighQuality THEN videoSize + audioSize ELSE videoSize
    IN SizeText(totalSize)

\* Math.round(Number.parseInt(contentLength) / (1024 * 1024)); contentLength
\* is held as the number its digits denote.
RoundMB(contentLength) == (2 * contentLength + 1024 * 1024) \div (2 * 1024 * 1024)

\* --------------------------------------------------- the provider's formats
\* Content lengths the provider reports: none, or 5.5 MiB.
ContentLengths == {Undefined, 5767168}

Rendition(hv, ha, c, q, b, ab, len) ==
    [hasVideo |-> hv, hasAudio |-> ha, container |-> c, qualityLabel |-> q,
     bitrate |-> b, audioBitrate |-> ab, contentLength |-> len]

\* Renditions with video and audio in one stream.
PreMuxedShapes ==
    {Rendition(TRUE, TRUE, "mp4", L720p, Undefined, Undefined, len) :
        len \in ContentLengths}
    \cup {Rendition(TRUE, TRUE, "mp4", L1080p, Undefined, Undefined, Undefined),
          Rendition(TRUE, TRUE, "mp4", NoLabel, Undefined, Undefined, Undefined)}

\* Video-only renditions.
VideoOnlyShapes ==
    {Rendition(TRUE, FALSE, "mp4", L1080p, b, Undefined, Undefined) :
        b \in {Undefined, 1, 2}}
    \cup {Rendition(TRUE, FALSE, "mp4", L720p, 1, Undefined, Undefined),
          Rendition(TRUE, FALSE, "mp4", L1080p60, 1, Undefined, 5767168),
          Rendition(TRUE, FALSE, "webm", L1080p, 2, Undefined, Undefined)}

\* Audio-only renditions.
AudioOnlyShapes ==
    {Rendition(FALSE, TRUE, "mp4", NoLabel, Undefined, ab, Undefined) :
        ab \in {Undefined, 1, 2}}
    \cup {Rendition(FALSE, TRUE, "webm", NoLabel, Undefined, 2, 5767168)}

Shapes == PreMuxedShapes \cup VideoOnlyShapes \cup AudioOnlyShapes

\* The provider numbers its renditions: the itag of the i-th is i.
WithItags(shapes) ==
    [i \in 1..Len(shapes) |->
        [itag |-> i,
         hasVideo |-> shapes[i].hasVideo,
         hasAudio |-> shapes[i].hasAudio,
         container |-> shapes[i].container,
         qualityLabel |-> shapes[i].qualityLabel,
         bitrate |-> shapes[i].bitrate,
         audioBitrate |-> shapes[i].audioBitrate,
         contentLength |-> shapes[i].contentLength]]

\* The rendition lists of n entries, before the provider numbers them;
\* info.formats holds up to MaxFormats entries.
ShapeLists(n) == [1..n -> Shapes]

\* ------------------------------------------------------- a JavaScript Map
\* A Map is the sequence of its entries in insertion order.
MapHas(m, key) == \E i \in 1..Len(m) : m[i].key = key
MapSet(m, key, value) ==
    IF MapHas(m, key)
    THEN [i \in 1..Len(m) |->
            IF m[i].key = key THEN [key |-> key, value |-> value] ELSE m[i]]
    ELSE Append(m, [key |-> key, value |-> value])
MapValues(m) == [i \in 1..Len(m) |-> m[i].value]

\* Array.prototype.sort of s by a consistent comparator, given as the table
\* cmp[i][j] of the comparator's results on s[i] and s[j]: the stable sorted
\* order (an element goes after those that compare before it and after the
\* equal ones that precede it in the array).
StableSort(s, cmp) ==
    LET rank(i) == 1 + Cardinality({j \in 1..Len(s) :
                          \/ cmp[j][i] < 0
                          \/ cmp[j][i] = 0 /\ j < i})
    IN [p \in 1..Len(s) |-> s[CHOOSE i \in 1..Len(s) : rank(i) = p]]

\* Decimal digits of a natural number, as `${n}` writes them.
RECURSIVE NumText(_)
NumText(n) ==
    LET d == <<"0", "1", "2", "3", "4", "5", "6", "7", "8", "9">>
    IN IF n < 10 THEN <<d[n + 1]>> ELSE NumText(n \div 10) \o <<d[(n % 10) + 1]>>

\* ------------------------------------------------- Analyze: the catalog
\* format.qualityLabel || format.quality || "Unknown"; only formats with a
\* quality label pass the filter in front of it.
QualityOf(format) ==
    IF format.qualityLabel # NoLabel THEN format.qualityLabel
    ELSE <<"U", "n", "k", "n", "o", "w", "n">>

IsCombinedFormat(format) ==
    format.hasVideo /\ format.hasAudio /\ format.qualityLabel # NoLabel

\* A plausible slip: the map keyed by stream id instead of by quality.
CombinedKeyByItag(format) == NumText(format.itag) \o StrCombined
\* `${quality}_combined`
CombinedKey(format) == QualityOf(format) \o StrCombined

\* `${quality}_high`
HighKey(videoFormat) == videoFormat.qualityLabel \o StrHigh

\* The option stored for a combined (video+audio) format.
CombinedOption(format) ==
    LET quality == QualityOf(format)
        resolution == extractResolution(quality)
    IN [quality |-> quality,
        format |-> format.container,
        filesize |-> IF format.contentLength # Undefined
                     THEN SizeText(RoundMB(format.contentLength))
                     ELSE estimateFileSize(resolution, FALSE),
        itag |-> format.itag,
        videoItag |-> Undefined,
        audioItag |-> Undefined,
        hasAudio |-> TRUE,
        hasVideo |-> TRUE,
        isHighQuality |-> FALSE,
        resolution |-> resolution]

\* The forEach over the combined formats: the first format of a key is kept.
RECURSIVE CombinedPass(_, _)
CombinedPass(fs, allFormats) ==
    IF fs = <<>> THEN allFormats
    ELSE LET format == Head(fs)
             key == CombinedKey(format)
         IN CombinedPass(Tail(fs),
                IF ~MapHas(allFormats, key)
                THEN MapSet(allFormats, key, CombinedOption(format))
                ELSE allFormats)

IsVideoOnlyFormat(format) ==
    /\ format.hasVideo
    /\ ~format.hasAudio
    /\ format.container = "mp4"
    /\ format.qualityLabel # NoLabel

\* The reduce that keeps one video-only format per quality label.
RECURSIVE ReduceVideoOnly(_, _)
ReduceVideoOnly(fs, acc) ==
    IF fs = <<>> THEN acc
    ELSE LET format == Head(fs)
             quality == format.qualityLabel
             found == {i \in 1..Len(acc) : acc[i].qualityLabel = quality}
             existing == acc[CHOOSE i \in found : \A j \in found : i <= j]
             OtherQuality(f) == f.qualityLabel # quality
         IN ReduceVideoOnly(Tail(fs),
                IF found = {}
                   \/ (Truthy(format.bitrate)
                       /\ JsGt(format.bitrate, existing.bitrate))
                THEN Append(SelectSeq(acc, OtherQuality), format)
                ELSE acc)

videoOnlyFormats(formats) ==
    ReduceVideoOnly(SelectSeq(formats, IsVideoOnlyFormat), <<>>)

IsAudioOnlyFormat(format) == ~format.hasVideo /\ format.hasAudio

\* A plausible slip: the operands exchanged, lowest bitrate first.
CompareAudioAscending(a, b) == OrZero(a.audioBitrate) - OrZero(b.audioBitrate)
\* (a, b) => (b.audioBitrate || 0) - (a.audioBitrate || 0)
CompareAudio(a, b) == OrZero(b.audioBitrate) - OrZero(a.audioBitrate)

\* The audio-only formats, best first; bestAudioFormat is the first of them
\* and is undefined when the sequence is empty.
SortedAudioFormats(formats) ==
    LET audio == SelectSeq(formats, IsAudioOnlyFormat)
    IN StableSort(audio,
                  [i \in 1..Len(audio) |->
                      [j \in 1..Len(audio) |-> CompareAudio(audio[i], audio[j])]])

\* A plausible slip: > where the code has >=.
IsAbove1080(resolution) == resolution > 1080
\* Only mark as high quality if resolution is 1080p or higher.
IsHighQualityResolution(resolution) == resolution >= 1080

\* The option stored for a video-only format merged with the best audio.
HighOption(videoFormat, bestAudioFormat) ==
    LET quality == videoFormat.qualityLabel
        resolution == extractResolution(quality)
        isHighQuality == IsHighQualityResolution(resolution)
        estimatedVideoSize ==
            IF videoFormat.contentLength # Undefined
            THEN RoundMB(videoFormat.contentLength)
            ELSE estimateVideoSize(resolution)
        estimatedAudioSize ==
            IF bestAudioFormat.contentLength # Undefined
            THEN RoundMB(bestAudioFormat.contentLength)
            ELSE 3
    IN [quality |-> IF isHighQuality THEN quality \o StrHighQuality ELSE quality,
        format |-> "mp4",
        filesize |-> SizeText(estimatedVideoSize + estimatedAudioSize),
        itag |-> Undefined,
        videoItag |-> videoFormat.itag,
        audioItag |-> bestAudioFormat.itag,
        hasAudio |-> TRUE,
        hasVideo |-> TRUE,
        isHighQuality |-> isHighQuality,
        resolution |-> resolution]

\* The forEach over the video-only formats.
RECURSIVE HighPass(_, _, _)
HighPass(vs, bestAudioFormat, allFormats) ==
    IF vs = <<>> THEN allFormats
    ELSE LET videoFormat == Head(vs)
             key == HighKey(videoFormat)
         IN HighPass(Tail(vs), bestAudioFormat,
                IF ~MapHas(allFormats, key)
                THEN MapSet(allFormats, key,
                            HighOption(videoFormat, bestAudioFormat))
                ELSE allFormats)

\* The option stored under "audio_only".
AudioOption(bestAudioFormat) ==
    [quality |-> StrAudioOnly,
     format |-> "mp3",
     filesize |-> IF bestAudioFormat.contentLength # Undefined
                  THEN SizeText(RoundMB(bestAudioFormat.contentLength))
                  ELSE SizeText(3),
     itag |-> bestAudioFormat.itag,
     videoItag |-> Undefined,
     audioItag |-> Undefined,
     hasAudio |-> TRUE,
     hasVideo |-> FALSE,
     isHighQuality |-> FALSE,
     resolution |-> 0]

\* The Map allFormats once the three passes have run.
BuildAllFormats(formats) ==
    LET combined == CombinedPass(SelectSeq(formats, IsCombinedFormat), <<>>)
        audio == SortedAudioFormats(formats)
    IN IF audio = <<>> THEN combined
       ELSE MapSet(HighPass(videoOnlyFormats(formats), Head(audio), combined),
                   StrAudioOnlyKey, AudioOption(Head(audio)))

\* A plausible slip: lowest resolution first.
CompareFormatsAscending(a, b) ==
    IF a.quality = StrAudioOnly /\ b.quality # StrAudioOnly THEN 1
    ELSE IF a.quality # StrAudioOnly /\ b.quality = StrAudioOnly THEN -1
    ELSE IF a.resolution # b.resolution THEN a.resolution - b.resolution
    ELSE IF a.isHighQuality /\ ~b.isHighQuality THEN -1
    ELSE IF ~a.isHighQuality /\ b.isHighQuality THEN 1
    ELSE 0
\* The comparator of the final sort.
CompareFormats(a, b) ==
    IF a.quality = StrAudioOnly /\ b.quality # StrAudioOnly THEN 1
    ELSE IF a.quality # StrAudioOnly /\ b.quality = StrAudioOnly THEN -1
    ELSE IF a.resolution # b.resolution THEN b.resolution - a.resolution
    ELSE IF a.isHighQuality /\ ~b.isHighQuality THEN -1
    ELSE IF ~a.isHighQuality /\ b.isHighQuality THEN 1
    ELSE 0

\* Array.from(allFormats.values()).sort(...)
SortFormats(allFormats) ==
    LET values == MapValues(allFormats)
    IN StableSort(values,
                  [i \in 1..Len(values) |->
                      [j \in 1..Len(values) |->
                          CompareFormats(values[i], values[j])]])

\* ------------------------------------------- Analyze: duration and counts
\* A plausible slip: padStart left out.
NoPad(text) == text
\* .toString().padStart(2, "0")
PadStart2(text) == IF Len(text) < 2 THEN <<"0">> \o text ELSE text

formatDuration(seconds) ==
    LET hours == seconds \div 3600
        minutes == (seconds % 3600) \div 60
        remainingSeconds == seconds % 60
    IN IF hours > 0
       THEN NumText(hours) \o <<":">> \o PadStart2(NumText(minutes))
            \o <<":">> \o PadStart2(NumText(remainingSeconds))
       ELSE NumText(minutes) \o <<":">> \o PadStart2(NumText(remainingSeconds))

\* (v * 2^k) % unit, by k doublings.
RECURSIVE DoubleMod(_, _, _)
DoubleMod(v, k, unit) ==
    IF k = 0 THEN v % unit ELSE DoubleMod((2 * v) % unit, k - 1, unit)

\* The sign of the error of the double num / unit (a correctly rounded
\* quotient with a 53-bit significand) against the exact quotient: the
\* significand is num * 2^(52 - e) / unit rounded to an integer, 2^e being the
\* power of two at or below the quotient, and the remainder of that division
\* tells which way it was rounded.  TRUE when the double is not below the
\* exact quotient.
QuotientNotBelow(num, unit) ==
    LET whole == num \div unit
        e == CHOOSE x \in 0..30 : 2^x <= whole /\ whole < 2 * 2^x
        remainder == DoubleMod(num % unit, 52 - e, unit)
    IN remainder = 0 \/ 2 * remainder > unit

\* (num / unit).toFixed(1), for num >= unit: the tenths nearest to the double
\* num / unit, the larger of the two when it lies exactly between them.
ToFixed1(num, unit) ==
    LET whole == num \div unit
        tenth == (10 * (num % unit)) \div unit
        rest == (10 * (num % unit)) % unit
        up == \/ 2 * rest > unit
              \/ 2 * rest = unit /\ QuotientNotBelow(num, unit)
        tenths == 10 * whole + tenth + (IF up THEN 1 ELSE 0)
    IN NumText(tenths \div 10) \o <<".">> \o NumText(tenths % 10)

formatNumber(num) ==
    IF num >= 1000000 THEN ToFixed1(num, 1000000) \o <<"M">>
    ELSE IF num >= 1000 THEN ToFixed1(num, 1000) \o <<"K">>
    ELSE NumText(num)

\* videoDetails.likes ? formatNumber(videoDetails.likes) : "N/A"
LikesText(likes) ==
    IF Truthy(likes) THEN formatNumber(likes) ELSE <<"N", "/", "A">>

\* The duration, views and likes of the response, from videoDetails.
VideoInfo(videoDetails) ==
    [duration |-> formatDuration(videoDetails.lengthSeconds),
     views |-> formatNumber(videoDetails.viewCount),
     likes |-> LikesText(videoDetails.likes)]

\* The lengthSeconds, viewCount and likes of a video.
Details(lengthSeconds, viewCount, likes) ==
    [lengthSeconds |-> lengthSeconds, viewCount |-> viewCount, likes |-> likes]
\* No metadata was fetched, no response built.
NoDetails == Details(0, 0, Undefined)
NoVideoInfo == [duration |-> <<>>, views |-> <<>>, likes |-> <<>>]

\* The details of the videos whose rendition lists are explored.
DetailSamples == {Details(45, 950, Undefined), Details(3661, 1500, 2300000)}

\* ------------------------------------------------------------------ state
VARIABLES
    pc,             \* "start", "analyzed", "rejected" (Analyze failed), "served"
    formats,        \* info.formats of the Analyze request
    allFormats,     \* the Map allFormats of the Analyze request
    analyzeUrl,     \* the url of the Analyze request
    analyzeInfo,    \* what ytdl.getInfo did for Analyze, NotCalled if not called
    videoDetails,   \* info.videoDetails of the Analyze request
    videoInfo,      \* duration, views and likes of the Analyze response
    analyzeStatus,  \* status of the Analyze response, 0 before it
    catalog,        \* the formats array of the Analyze response
    request,        \* the Download request: [url, format], format <<>> if missing
    downloadInfo,   \* what ytdl.getInfo did for Download
    freshFormats,   \* info.formats of the Download request
    videoTitle,     \* info.videoDetails.title of the Download request
    headers,        \* the headers of the Download response
    downloadStatus, \* status of the Download response, 0 before it
    route,          \* the handler Download called: "none", "high", "audio", "standard"
    videoStream,    \* the ytdl stream named videoStream
    audioStream,    \* the ytdl stream named audioStream
    ffmpegProcess,  \* the child process
    stdin3,         \* ffmpegProcess.stdio[3], the video input pipe
    stdin4,         \* ffmpegProcess.stdio[4], the audio input pipe
    stdout,         \* ffmpegProcess.stdout
    stream,         \* the response's ReadableStream: its state
    cancelled,      \* whether the consumer cancelled the ReadableStream
    emitted,        \* chunks the relayed source has emitted as 'data', in order
    enqueued,       \* chunks controller.enqueue accepted, in order
    queue,          \* chunks enqueued and not yet read by the consumer
    fedVideo,       \* chunks of videoStream written to stdio[3]
    fedAudio,       \* chunks of audioStream written to stdio[4]
    uncaught,       \* exceptions thrown out of an event listener, or 'error'
                    \* events no listener handled
    lastError,      \* the error object of the last 'error' event, "none" before
    storedError,    \* the error the ReadableStream was errored with, or "none"
    calls           \* the calls of controller.close ("close") and
                    \* controller.error ("error") and the runs of cancel()
                    \* ("cancel"), in order

analyzeVars ==
    <<analyzeUrl, analyzeInfo, formats, allFormats, videoDetails, videoInfo,
      analyzeStatus, catalog>>
requestVars ==
    <<request, downloadInfo, freshFormats, videoTitle, headers, downloadStatus,
      route>>
transferVars ==
    <<videoStream, audioStream, ffmpegProcess, stdin3, stdin4, stdout, stream,
      cancelled, emitted, enqueued, queue, fedVideo, fedAudio, uncaught,
      lastError, storedError, calls>>
vars == <<pc, analyzeVars, requestVars, transferVars>>

\* The transfer of a request as one record, and the state holding it.
Idle ==
    [videoStream |-> "none", audioStream |-> "none", ffmpegProcess |-> "none",
     stdin3 |-> "none", stdin4 |-> "none", stdout |-> "none",
     stream |-> "none", cancelled |-> FALSE, emitted |-> <<>>,
     enqueued |-> <<>>, queue |-> <<>>, fedVideo |-> 0, fedAudio |-> 0,
     uncaught |-> 0, lastError |-> "none", storedError |-> "none",
     calls |-> <<>>]
TransferIs(t) ==
    /\ videoStream = t.videoStream
    /\ audioStream = t.audioStream
    /\ ffmpegProcess = t.ffmpegProcess
    /\ stdin3 = t.stdin3
    /\ stdin4 = t.stdin4
    /\ stdout = t.stdout
    /\ stream = t.stream
    /\ cancelled = t.cancelled
    /\ emitted = t.emitted
    /\ enqueued = t.enqueued
    /\ queue = t.queue
    /\ fedVideo = t.fedVideo
    /\ fedAudio = t.fedAudio
    /\ uncaught = t.uncaught
    /\ lastError = t.lastError
    /\ storedError = t.storedError
    /\ calls = t.calls
SetTransfer(t) ==
    /\ videoStream' = t.videoStream
    /\ audioStream' = t.audioStream
    /\ ffmpegProcess' = t.ffmpegProcess
    /\ stdin3' = t.stdin3
    /\ stdin4' = t.stdin4
    /\ stdout' = t.stdout
    /\ stream' = t.stream
    /\ cancelled' = t.cancelled
    /\ emitted' = t.emitted
    /\ enqueued' = t.enqueued
    /\ queue' = t.queue
    /\ fedVideo' = t.fedVideo
    /\ fedAudio' = t.fedAudio
    /\ uncaught' = t.uncaught
    /\ lastError' = t.lastError
    /\ storedError' = t.storedError
    /\ calls' = t.calls

\* No request has been served: no stream, no process.
NoTransfer == TransferIs(Idle)

\* No response yet: no headers.
NoHeaders ==
    [contentType |-> "", contentDisposition |-> <<>>, contentLength |-> Undefined]

\* What a call of ytdl.getInfo did: it was not made, it resolved, or it threw
\* an Error with a message.
NotCalled == [called |-> FALSE, threw |-> FALSE, message |-> <<>>]
Resolved == [called |-> TRUE, threw |-> FALSE, message |-> <<>>]
Threw(message) == [called |-> TRUE, threw |-> TRUE, message |-> message]

Init ==
    /\ pc = "start"
    /\ analyzeUrl = ""
    /\ analyzeInfo = NotCalled
    /\ downloadInfo = NotCalled
    /\ videoDetails = NoDetails
    /\ videoInfo = NoVideoInfo
    /\ formats = <<>>
    /\ allFormats = <<>>
    /\ analyzeStatus = 0
    /\ catalog = <<>>
    /\ request = [url |-> "", format |-> <<>>]
    /\ freshFormats = <<>>
    /\ videoTitle = <<>>
    /\ headers = NoHeaders
    /\ downloadStatus = 0
    /\ route = "none"
    /\ NoTransfer

\* ---------------------------------------------------------------- requests
\* URLs a client sends: none, one ytdl.validateURL rejects, one it accepts.
Urls == {"", "https://example.com/x", "https://www.youtube.com/watch?v=a"}
validateURL(url) == url = "https://www.youtube.com/watch?v=a"

\* Messages of the Errors ytdl.getInfo throws.
MsgUnavailable ==
    <<"V", "i", "d", "e", "o", " ", "u", "n", "a", "v", "a", "i", "l", "a",
      "b", "l", "e">>
MsgAgeRestricted ==
    <<"T", "h", "i", "s", " ", "v", "i", "d", "e", "o", " ", "i", "s", " ",
      "a", "g", "e", "-", "r", "e", "s", "t", "r", "i", "c", "t", "e", "d">>
MsgSignIn ==
    <<"S", "i", "g", "n", " ", "i", "n", " ", "t", "o", " ", "c", "o", "n",
      "f", "i", "r", "m", " ", "y", "o", "u", "'", "r", "e", " ", "n", "o",
      "t", " ", "a", " ", "b", "o", "t">>
MsgSignInAge ==
    <<"S", "i", "g", "n", " ", "i", "n", " ", "t", "o", " ", "c", "o", "n",
      "f", "i", "r", "m", " ", "y", "o", "u", "r", " ", "a", "g", "e", ".",
      " ", "T", "h", "i", "s", " ", "v", "i", "d", "e", "o", " ", "i", "s",
      " ", "a", "g", "e", "-", "r", "e", "s", "t", "r", "i", "c", "t", "e",
      "d", ".">>
MsgGone ==
    <<"S", "t", "a", "t", "u", "s", " ", "c", "o", "d", "e", ":", " ", "4",
      "1", "0">>
InfoErrors ==
    {MsgUnavailable, MsgAgeRestricted, MsgSignIn, MsgSignInAge, MsgGone}

\* The substrings the catch blocks look for.
StrVideoUnavailable ==
    <<"V", "i", "d", "e", "o", " ", "u", "n", "a", "v", "a", "i", "l", "a",
      "b", "l", "e">>
StrAgeRestricted ==
    <<"a", "g", "e", "-", "r", "e", "s", "t", "r", "i", "c", "t", "e", "d">>
StrSignInToConfirm ==
    <<"S", "i", "g", "n", " ", "i", "n", " ", "t", "o", " ", "c", "o", "n",
      "f", "i", "r", "m">>

\* message.includes(needle)
Includes(message, needle) ==
    \E i \in 1..(Len(message) - Len(needle) + 1) :
        SubSeq(message, i, i + Len(needle) - 1) = needle

\* The catch block of Analyze.
AnalyzeErrorStatus(message) ==
    IF Includes(message, StrVideoUnavailable) THEN 404
    ELSE IF Includes(message, StrAgeRestricted) THEN 403
    ELSE 500

\* The catch block of Download.
DownloadErrorStatus(message) ==
    IF Includes(message, StrVideoUnavailable) THEN 404
    ELSE IF Includes(message, StrAgeRestricted) THEN 403
    ELSE IF Includes(message, StrSignInToConfirm) THEN 403
    ELSE 500

\* Analyze answers without a catalog.
AnalyzeFails(status) ==
    /\ pc' = "rejected"
    /\ analyzeStatus' = status
    /\ UNCHANGED <<formats, allFormats, videoDetails, videoInfo, catalog>>

\* A plausible slip: getInfo called before the url is validated, the 400
\* answered afterwards.
ValidateAfterInfo(url) ==
    /\ analyzeUrl' = url
    /\ analyzeInfo' = IF url = "" THEN NotCalled ELSE Resolved
    /\ AnalyzeFails(400)
\* The two early returns of Analyze: !url, !ytdl.validateURL(url).
RejectUrl(url) ==
    /\ analyzeUrl' = url
    /\ analyzeInfo' = NotCalled
    /\ AnalyzeFails(400)

\* Analyze answers with the catalog: getInfo resolved with the renditions fs
\* and the details of the video.
AnalyzeSucceeds(url, fs, details) ==
    LET built == BuildAllFormats(fs)
    IN /\ pc' = "analyzed"
       /\ analyzeUrl' = url
       /\ analyzeInfo' = Resolved
       /\ formats' = fs
       /\ allFormats' = built
       /\ videoDetails' = details
       /\ videoInfo' = VideoInfo(details)
       /\ catalog' = SortFormats(built)
       /\ analyzeStatus' = 200

\* POST /api/analyze.  A branch draws only the inputs it reads: the url, then
\* the outcome of getInfo, then the formats getInfo resolved with.
Analyze ==
    /\ pc = "start"
    /\ \/ \E url \in Urls :
             /\ url = "" \/ ~validateURL(url)
             /\ RejectUrl(url)
       \/ \E url \in Urls, message \in InfoErrors :
             /\ url # ""
             /\ validateURL(url)
             /\ analyzeUrl' = url
             /\ analyzeInfo' = Threw(message)
             /\ AnalyzeFails(AnalyzeErrorStatus(message))
       \/ \E url \in Urls, n \in 0..MaxFormats, details \in DetailSamples :
             /\ url # ""
             /\ validateURL(url)
             /\ \E shapes \in ShapeLists(n) :
                   AnalyzeSucceeds(url, WithItags(shapes), details)
    /\ UNCHANGED <<requestVars, transferVars>>

\* ------------------------------------------------- titles and file names
\* \w of a JavaScript regular expression without the u flag.
IsWordChar(c) ==
    c \in {"a", "b", "c", "d", "e", "f", "g", "h", "i", "j", "k", "l", "m",
           "n", "o", "p", "q", "r", "s", "t", "u", "v", "w", "x", "y", "z",
           "A", "B", "C", "D", "E", "F", "G", "H", "I", "J", "K", "L", "M",
           "N", "O", "P", "Q", "R", "S", "T", "U", "V", "W", "X", "Y", "Z",
           "0", "1", "2", "3", "4", "5", "6", "7", "8", "9", "_"}
\* \s, and the characters trim() removes.
IsWhiteSpace(c) == c \in {" ", "\t", "\n"}

\* .replace(/[^\w\s-]/g, "")
StripOthers(t) ==
    SelectSeq(t, LAMBDA c : IsWordChar(c) \/ IsWhiteSpace(c) \/ c = "-")

\* .trim(): what lies between the first and the last character that is not
\* whitespace.
Trim(t) ==
    LET solid == {i \in 1..Len(t) : ~IsWhiteSpace(t[i])}
    IN IF solid = {} THEN <<>>
       ELSE SubSeq(t, CHOOSE i \in solid : \A j \in solid : i <= j,
                      CHOOSE i \in solid : \A j \in solid : i >= j)

\* A plausible slip: /\s/g in place of /\s+/g, one underscore per character.
UnderscoreEach(t) ==
    [i \in 1..Len(t) |-> IF IsWhiteSpace(t[i]) THEN "_" ELSE t[i]]
\* .replace(/\s+/g, "_"): every maximal run of whitespace becomes one "_"
\* (the last character of a run is replaced, the others of it are dropped).
UnderscoreRuns(t) ==
    LET EndsRun(i) == i = Len(t) \/ ~IsWhiteSpace(t[i + 1])
        kept == SelectSeq([i \in 1..Len(t) |-> i],
                          LAMBDA i : ~IsWhiteSpace(t[i]) \/ EndsRun(i))
    IN [k \in 1..Len(kept) |->
           IF IsWhiteSpace(t[kept[k]]) THEN "_" ELSE t[kept[k]]]

\* The limit of .substring(0, 100).
MaxTitleLength == 100
\* .substring(0, n)
Substring(t, n) == SubSeq(t, 1, IF Len(t) < n THEN Len(t) ELSE n)

\* sanitizedTitle of POST, which the handlers receive as `title` and do not
\* use.
SanitizedTitle(title) ==
    Substring(UnderscoreRuns(Trim(StripOthers(title))), MaxTitleLength)

\* The title part of `filename` as each handler builds it, from
\* videoDetails.title and not from `title`.
FileTitle(videoDetailsTitle) == UnderscoreRuns(Trim(StripOthers(videoDetailsTitle)))

\* The characters of a container or format name.
Text(name) ==
    CASE name = "mp4" -> <<"m", "p", "4">>
      [] name = "mp3" -> <<"m", "p", "3">>
      [] name = "webm" -> <<"w", "e", "b", "m">>

\* `attachment; filename="${filename}"`
StrAttachment ==
    <<"a", "t", "t", "a", "c", "h", "m", "e", "n", "t", ";", " ", "f", "i",
      "l", "e", "n", "a", "m", "e", "=", "\"">>
ContentDisposition(filename) == StrAttachment \o filename \o <<"\"">>

\* Titles the provider reports: the spec's example; one with leading and
\* trailing whitespace, runs of mixed whitespace, a hyphen and an underscore;
\* one of punctuation only; one longer than MaxTitleLength.
TitleExample ==
    <<"M", "y", " ", "V", "i", "d", "e", "o", ":", " ", "P", "a", "r", "t",
      " ", "#", "1", "!">>
TitleSpaced ==
    <<" ", " ", "a", " ", "\t", "\n", " ", "b", "-", "c", "_", "d", ":", " ",
      "e", " ", " ">>
TitlePunctuation == <<"#", "!">>
TitleLong == [i \in 1..(MaxTitleLength + 1) |-> IF i % 7 = 0 THEN " " ELSE "a"]
Titles == {TitleExample, TitleSpaced, TitlePunctuation, TitleLong}

\* The headers of a NextResponse.json(...) response.
JsonHeaders ==
    [contentType |-> "application/json", contentDisposition |-> <<>>,
     contentLength |-> Undefined]

\* --------------------------------------------------------------- Download
\* info.formats.find((f) => f.itag === itag): the matching formats, first one
\* first; empty when find returns undefined.
FindByItag(info, itag) ==
    LET HasItag(f) == f.itag = itag
    IN SelectSeq(info, HasItag)

\* The rendition lists a fresh getInfo may return for a video analysed with
\* fs: the same list, or the list with one rendition gone (expired).
FreshLists(fs) ==
    {fs} \cup {SelectSeq(fs, LAMBDA f : f.itag # k) : k \in 1..Len(fs)}

\* The format objects a client posts: an option of the catalog it was given,
\* such an option with the isHighQuality flag flipped, or none.
ClientFormats ==
    {<<>>}
    \cup {<<catalog[i]>> : i \in 1..Len(catalog)}
    \cup {<<[catalog[i] EXCEPT !.isHighQuality = ~catalog[i].isHighQuality]>> :
            i \in 1..Len(catalog)}

\* A JSON error response: nothing is opened or spawned.
Respond(status, handler) ==
    /\ downloadStatus' = status
    /\ route' = handler
    /\ headers' = JsonHeaders
    /\ UNCHANGED transferVars

\* The response that carries the stream: new NextResponse(readableStream,
\* { headers }) by handler, which set up transfer t.
RespondStream(handler, hdrs, t) ==
    /\ downloadStatus' = 200
    /\ route' = handler
    /\ headers' = hdrs
    /\ SetTransfer(t)

\* A plausible slip: the Content-Length never copied to the headers.
WithoutContentLength(hdrs, selectedFormat) == hdrs
\* if (selectedFormat.contentLength) headers.set("Content-Length", ...)
WithContentLength(hdrs, selectedFormat) ==
    IF selectedFormat.contentLength # Undefined
    THEN [hdrs EXCEPT !.contentLength = selectedFormat.contentLength]
    ELSE hdrs

\* What handleStandardDownload has set up when it answers with the stream:
\* ytdl's stream, and the ReadableStream whose start() attached the listeners.
StandardTransfer ==
    [Idle EXCEPT !.videoStream = "flowing", !.stream = "readable"]

\* The headers of handleStandardDownload.
StandardHeaders(selectedFormat, format, videoDetailsTitle) ==
    WithContentLength(
        [contentType |-> IF format.format = "mp3" THEN "audio/mpeg"
                         ELSE "video/mp4",
         contentDisposition |->
             ContentDisposition(FileTitle(videoDetailsTitle) \o <<".">>
                                \o Text(format.format)),
         contentLength |-> Undefined],
        selectedFormat)

\* handleStandardDownload: relay of one combined stream.
handleStandardDownload(info, format, title, videoDetailsTitle) ==
    LET found == FindByItag(info, format.itag)
    IN IF found = <<>>
       THEN Respond(404, "standard")
       ELSE RespondStream("standard",
                          StandardHeaders(Head(found), format, videoDetailsTitle),
                          StandardTransfer)

\* What handleAudioOnlyDownload has set up when it answers with the stream.
AudioTransfer ==
    [Idle EXCEPT !.audioStream = "flowing", !.stream = "readable"]

\* The headers of handleAudioOnlyDownload.
AudioHeaders(selectedFormat, videoDetailsTitle) ==
    WithContentLength(
        [contentType |-> "audio/mpeg",
         contentDisposition |->
             ContentDisposition(FileTitle(videoDetailsTitle) \o <<".">>
                                \o Text("mp3")),
         contentLength |-> Undefined],
        selectedFormat)

\* handleAudioOnlyDownload: relay of one audio stream.
handleAudioOnlyDownload(info, format, title, videoDetailsTitle) ==
    LET found == FindByItag(info, format.itag)
    IN IF found = <<>>
       THEN Respond(404, "audio")
       ELSE RespondStream("audio", AudioHeaders(Head(found), videoDetailsTitle),
                          AudioTransfer)

\* A plausible slip: && where the handler has ||.
HighFormatsMissingBoth(info, format) ==
    /\ FindByItag(info, format.videoItag) = <<>>
    /\ FindByItag(info, format.audioItag) = <<>>
\* !videoFormat || !audioFormat
HighFormatsMissing(info, format) ==
    \/ FindByItag(info, format.videoItag) = <<>>
    \/ FindByItag(info, format.audioItag) = <<>>

\* What handleHighQualityDownload has set up when it answers with the
\* stream: two ytdl streams piped into the input pipes of a running ffmpeg,
\* whose stdout the ReadableStream listens to.
HighTransfer ==
    [Idle EXCEPT !.videoStream = "flowing", !.audioStream = "flowing",
                 !.ffmpegProcess = "running", !.stdin3 = "open",
                 !.stdin4 = "open", !.stdout = "open", !.stream = "readable"]

\* The headers of handleHighQualityDownload: no Content-Length is set.
HighHeaders(videoDetailsTitle) ==
    [contentType |-> "video/mp4",
     contentDisposition |->
         ContentDisposition(FileTitle(videoDetailsTitle) \o <<".">>
                            \o Text("mp4")),
     contentLength |-> Undefined]

\* handleHighQualityDownload: both streams piped into ffmpeg.  spawnThrows:
\* spawn throws synchronously, which the handler's catch answers with 500,
\* the two ytdl streams already created.
handleHighQualityDownload(info, format, title, videoDetailsTitle, spawnThrows) ==
    IF HighFormatsMissing(info, format)
    THEN /\ ~spawnThrows
         /\ Respond(404, "high")
    ELSE IF spawnThrows
    THEN /\ downloadStatus' = 500
         /\ route' = "high"
         /\ headers' = JsonHeaders
         /\ SetTransfer([Idle EXCEPT !.videoStream = "flowing",
                                     !.audioStream = "flowing"])
    ELSE RespondStream("high", HighHeaders(videoDetailsTitle), HighTransfer)

\* A plausible slip: the audio-only test made before the high-quality test.
DispatchAudioFirst(info, format, title, videoDetailsTitle, spawnThrows) ==
    IF format.quality = StrAudioOnly
    THEN ~spawnThrows /\ handleAudioOnlyDownload(info, format, title, videoDetailsTitle)
    ELSE IF format.isHighQuality
    THEN handleHighQualityDownload(info, format, title, videoDetailsTitle, spawnThrows)
    ELSE ~spawnThrows /\ handleStandardDownload(info, format, title, videoDetailsTitle)
\* The if / else if / else of Download.
Dispatch(info, format, title, videoDetailsTitle, spawnThrows) ==
    IF format.isHighQuality
    THEN handleHighQualityDownload(info, format, title, videoDetailsTitle, spawnThrows)
    ELSE IF format.quality = StrAudioOnly
    THEN ~spawnThrows /\ handleAudioOnlyDownload(info, format, title, videoDetailsTitle)
    ELSE ~spawnThrows /\ handleStandardDownload(info, format, title, videoDetailsTitle)

\* The two early returns of Download: !url || !format, !validateURL(url).
RejectRequest ==
    /\ downloadInfo' = NotCalled
    /\ freshFormats' = <<>>
    /\ videoTitle' = <<>>
    /\ Respond(400, "none")

\* POST /api/download, by a client that holds the catalog.  A branch draws
\* only the inputs it reads.
Download ==
    /\ pc = "analyzed"
    /\ Len(formats) <= MaxServed
    /\ pc' = "served"
    /\ \E url \in Urls, fmt \in ClientFormats :
          /\ request' = [url |-> url, format |-> fmt]
          /\ \/ /\ url = "" \/ fmt = <<>>
                /\ RejectRequest
             \/ /\ url # "" /\ fmt # <<>>
                /\ ~validateURL(url)
                /\ RejectRequest
             \/ /\ url # "" /\ fmt # <<>>
                /\ validateURL(url)
                /\ \E message \in InfoErrors :
                      /\ downloadInfo' = Threw(message)
                      /\ freshFormats' = <<>>
                      /\ videoTitle' = <<>>
                      /\ Respond(DownloadErrorStatus(message), "none")
             \/ /\ url # "" /\ fmt # <<>>
                /\ validateURL(url)
                /\ \E info \in FreshLists(formats), t \in Titles,
                      spawnThrows \in BOOLEAN :
                      /\ downloadInfo' = Resolved
                      /\ freshFormats' = info
                      /\ videoTitle' = t
                      /\ Dispatch(info, fmt[1], SanitizedTitle(t), t,
                                  spawnThrows)
    /\ UNCHANGED analyzeVars

Next == Analyze \/ Download

Spec == Init /\ [][Next]_vars

\* ---------------------------------------------- the response ReadableStream
\* stream is "readable", "closing" (close() called, chunks still queued),
\* "closed" or "errored".  Chunks a source may emit:
Chunks == {"a", "b"}

\* new ReadableStream({...}) is given no queuing strategy: the default one
\* counts chunks and has a high-water mark of 1.
HighWaterMark == 1

\* A plausible slip: a relay that drops the chunk while the consumer is behind.
EnqueueWhenIdle(chunk) ==
    IF stream = "readable" /\ queue = <<>>
    THEN /\ enqueued' = Append(enqueued, chunk)
         /\ queue' = Append(queue, chunk)
         /\ UNCHANGED <<stream, uncaught, calls>>
    ELSE UNCHANGED <<stream, enqueued, queue, uncaught, calls>>
\* The 'data' listener: controller.enqueue(chunk), which throws when the
\* stream is no longer readable or close() was called.
ControllerEnqueue(chunk) ==
    IF stream = "readable"
    THEN /\ enqueued' = Append(enqueued, chunk)
         /\ queue' = Append(queue, chunk)
         /\ UNCHANGED <<stream, uncaught, calls>>
    ELSE /\ uncaught' = uncaught + 1
         /\ UNCHANGED <<stream, enqueued, queue, calls>>

\* The 'end' listener: controller.close(), which throws in the same cases.
ControllerClose ==
    /\ calls' = Append(calls, "close")
    /\ IF stream = "readable"
       THEN /\ stream' = IF queue = <<>> THEN "closed" ELSE "closing"
            /\ UNCHANGED <<enqueued, queue, uncaught>>
       ELSE /\ uncaught' = uncaught + 1
            /\ UNCHANGED <<stream, enqueued, queue>>

\* Error objects a stream or the child process emits with 'error'.
Errors == {"ECONNRESET", "Status code: 403"}

\* A plausible slip: an 'error' listener that ends the response as if the
\* source had ended.
ControllerCloseOnError(error) ==
    /\ calls' = Append(calls, "close")
    /\ IF stream \in {"readable", "closing"}
       THEN /\ stream' = IF queue = <<>> THEN "closed" ELSE "closing"
            /\ UNCHANGED <<enqueued, queue, uncaught, storedError>>
       ELSE UNCHANGED <<stream, enqueued, queue, uncaught, storedError>>
\* The 'error' listener: controller.error(error) drops the queued chunks and
\* errors the stream with that error; on a closed or errored stream it does
\* nothing.
ControllerError(error) ==
    /\ calls' = Append(calls, "error")
    /\ IF stream \in {"readable", "closing"}
       THEN /\ stream' = "errored"
            /\ storedError' = error
            /\ queue' = <<>>
            /\ UNCHANGED <<enqueued, uncaught>>
       ELSE UNCHANGED <<stream, enqueued, queue, uncaught, storedError>>

\* A plausible slip: a cancel() that does not destroy the stream.
LeftOpen(s) == s
\* stream.destroy(): a stream that still flows is torn down.
Destroyed(s) == IF s = "flowing" THEN "destroyed" ELSE s

staticVars == <<pc, analyzeVars, requestVars>>
errorVars == <<lastError, storedError>>
muxVars == <<ffmpegProcess, stdin3, stdin4, stdout, fedVideo, fedAudio>>

\* The consumer (the HTTP transport) takes the next chunk.
ConsumerRead ==
    /\ stream \in {"readable", "closing"}
    /\ queue # <<>>
    /\ queue' = Tail(queue)
    /\ stream' = IF stream = "closing" /\ Tail(queue) = <<>>
                 THEN "closed" ELSE stream
    /\ UNCHANGED <<staticVars, errorVars, calls, muxVars, videoStream, audioStream, cancelled,
                   emitted, enqueued, uncaught>>

\* ------------------------------------- the relay of the single-stream paths
\* handleStandardDownload relays videoStream, handleAudioOnlyDownload
\* audioStream; the listeners are the same.
Source == IF route = "audio" THEN audioStream ELSE videoStream
SetSource(v) ==
    IF route = "audio"
    THEN audioStream' = v /\ UNCHANGED videoStream
    ELSE videoStream' = v /\ UNCHANGED audioStream

\* The source emits 'data'.
RelayData ==
    /\ Source = "flowing"
    /\ Len(emitted) < MaxChunks
    /\ \E chunk \in Chunks :
          /\ emitted' = Append(emitted, chunk)
          /\ ControllerEnqueue(chunk)
    /\ UNCHANGED <<staticVars, errorVars, muxVars, videoStream, audioStream, cancelled>>

\* The source emits 'end'.
RelayEnd ==
    /\ Source = "flowing"
    /\ SetSource("ended")
    /\ ControllerClose
    /\ UNCHANGED <<staticVars, errorVars, muxVars, cancelled, emitted>>

\* The source emits 'error'.
RelayError ==
    /\ Source = "flowing"
    /\ SetSource("errored")
    /\ \E error \in Errors :
          /\ lastError' = error
          /\ ControllerError(error)
    /\ UNCHANGED <<staticVars, muxVars, cancelled, emitted>>

\* The consumer cancels; cancel() destroys the source.
RelayCancel ==
    /\ stream \in {"readable", "closing"}
    /\ cancelled' = TRUE
    /\ calls' = Append(calls, "cancel")
    /\ stream' = "closed"
    /\ queue' = <<>>
    /\ SetSource(Destroyed(Source))
    /\ UNCHANGED <<staticVars, errorVars, muxVars, emitted, enqueued, uncaught>>

\* ----------------------------------------------------- the mux pipeline
\* videoStream.pipe(stdio[3]) writes a chunk to ffmpeg.
VideoData ==
    /\ videoStream = "flowing"
    /\ stdin3 = "open"
    /\ fedVideo < MaxChunks
    /\ fedVideo' = fedVideo + 1
    /\ UNCHANGED <<staticVars, errorVars, calls, videoStream, audioStream, ffmpegProcess, stdin3,
                   stdin4, stdout, stream, cancelled, emitted, enqueued,
                   queue, fedAudio, uncaught>>

\* A plausible slip: pipe(stdio[3], { end: false }), which leaves the input
\* open when videoStream ends.
VideoEndKeepsOpen ==
    /\ videoStream = "flowing"
    /\ videoStream' = "ended"
    /\ UNCHANGED <<staticVars, errorVars, calls, audioStream, ffmpegProcess, stdin3,
                   stdin4, stdout, stream, cancelled, emitted, enqueued, queue,
                   fedVideo, fedAudio, uncaught>>
\* videoStream ends: pipe() ends stdio[3].
VideoEnd ==
    /\ videoStream = "flowing"
    /\ videoStream' = "ended"
    /\ stdin3' = IF stdin3 = "open" THEN "ended" ELSE stdin3
    /\ UNCHANGED <<staticVars, errorVars, calls, audioStream, ffmpegProcess, stdin4, stdout,
                   stream, cancelled, emitted, enqueued, queue, fedVideo,
                   fedAudio, uncaught>>

\* videoStream emits 'error': the handler attached no listener, so the event
\* is thrown as an uncaught exception; pipe() does not end stdio[3].
VideoError ==
    /\ videoStream = "flowing"
    /\ videoStream' = "errored"
    /\ \E error \in Errors : lastError' = error
    /\ uncaught' = uncaught + 1
    /\ UNCHANGED <<staticVars, storedError, calls, audioStream, ffmpegProcess, stdin3, stdin4,
                   stdout, stream, cancelled, emitted, enqueued, queue,
                   fedVideo, fedAudio>>

\* audioStream.pipe(stdio[4]) writes a chunk to ffmpeg.
AudioData ==
    /\ audioStream = "flowing"
    /\ stdin4 = "open"
    /\ fedAudio < MaxChunks
    /\ fedAudio' = fedAudio + 1
    /\ UNCHANGED <<staticVars, errorVars, calls, videoStream, audioStream, ffmpegProcess, stdin3,
                   stdin4, stdout, stream, cancelled, emitted, enqueued,
                   queue, fedVideo, uncaught>>

\* audioStream ends: pipe() ends stdio[4].
AudioEnd ==
    /\ audioStream = "flowing"
    /\ audioStream' = "ended"
    /\ stdin4' = IF stdin4 = "open" THEN "ended" ELSE stdin4
    /\ UNCHANGED <<staticVars, errorVars, calls, videoStream, ffmpegProcess, stdin3, stdout,
                   stream, cancelled, emitted, enqueued, queue, fedVideo,
                   fedAudio, uncaught>>

\* audioStream emits 'error': no listener either.
AudioError ==
    /\ audioStream = "flowing"
    /\ audioStream' = "errored"
    /\ \E error \in Errors : lastError' = error
    /\ uncaught' = uncaught + 1
    /\ UNCHANGED <<staticVars, storedError, calls, videoStream, ffmpegProcess, stdin3, stdin4,
                   stdout, stream, cancelled, emitted, enqueued, queue,
                   fedVideo, fedAudio>>

\* stdout emits 'data' with a chunk ffmpeg wrote, which can arrive after the
\* process is gone and until 'end': the 'data' listener enqueues it.
FfmpegOutput ==
    /\ ffmpegProcess \in {"running", "exited", "failed", "killed"}
    /\ stdout = "open"
    /\ Len(emitted) < MaxChunks
    /\ \E chunk \in Chunks :
          /\ emitted' = Append(emitted, chunk)
          /\ ControllerEnqueue(chunk)
    /\ UNCHANGED <<staticVars, errorVars, muxVars, videoStream, audioStream, cancelled>>

\* The input pipes of a process that is gone.
Broken(pipe) == IF pipe = "open" THEN "broken" ELSE pipe

\* ffmpeg has read both inputs to their end and exits with status 0.  No
\* listener is attached to 'exit' or 'close'.
FfmpegExit ==
    /\ ffmpegProcess = "running"
    /\ stdin3 = "ended"
    /\ stdin4 = "ended"
    /\ ffmpegProcess' = "exited"
    /\ UNCHANGED <<staticVars, errorVars, calls, videoStream, audioStream, stdin3, stdin4,
                   stdout, stream, cancelled, emitted, enqueued, queue,
                   fedVideo, fedAudio, uncaught>>

\* A plausible slip: an 'exit' listener that reports the failure with
\* controller.error while the 'end' listener of stdout still closes.
FfmpegFailReported ==
    /\ ffmpegProcess = "running"
    /\ ffmpegProcess' = "failed"
    /\ stdin3' = Broken(stdin3)
    /\ stdin4' = Broken(stdin4)
    /\ lastError' = "exit 1"
    /\ ControllerError("exit 1")
    /\ UNCHANGED <<staticVars, videoStream, audioStream, stdout, cancelled,
                   emitted, fedVideo, fedAudio>>
\* ffmpeg exits with a non-zero status or is terminated abnormally, at any
\* point of the transfer.  No listener is attached to 'exit' or 'close'.
FfmpegFail ==
    /\ ffmpegProcess = "running"
    /\ ffmpegProcess' = "failed"
    /\ stdin3' = Broken(stdin3)
    /\ stdin4' = Broken(stdin4)
    /\ UNCHANGED <<staticVars, errorVars, calls, videoStream, audioStream, stdout, stream,
                   cancelled, emitted, enqueued, queue, fedVideo, fedAudio,
                   uncaught>>

\* The process could not be started: the child emits 'error' on the tick
\* after spawn, before any event of the streams or of the consumer; the
\* listener calls controller.error(error); the pipes are destroyed without
\* 'end'.
FfmpegSpawnError ==
    /\ TransferIs(HighTransfer)
    /\ ffmpegProcess' = "spawnError"
    /\ stdin3' = Broken(stdin3)
    /\ stdin4' = Broken(stdin4)
    /\ stdout' = "destroyed"
    /\ lastError' = "spawn ffmpeg ENOENT"
    /\ ControllerError("spawn ffmpeg ENOENT")
    /\ UNCHANGED <<staticVars, videoStream, audioStream, cancelled, emitted,
                   fedVideo, fedAudio>>

\* stdout of a process that is gone emits 'end': the listener calls
\* controller.close().
StdoutEnd ==
    /\ ffmpegProcess \in {"exited", "failed", "killed"}
    /\ stdout = "open"
    /\ stdout' = "ended"
    /\ ControllerClose
    /\ UNCHANGED <<staticVars, errorVars, videoStream, audioStream, ffmpegProcess, stdin3,
                   stdin4, cancelled, emitted, fedVideo, fedAudio>>

\* A plausible slip: cancel() that kills ffmpeg and forgets the ytdl streams.
CancelKillsOnly ==
    /\ ffmpegProcess' = IF ffmpegProcess = "running" THEN "killed"
                        ELSE ffmpegProcess
    /\ stdin3' = IF ffmpegProcess = "running" THEN Broken(stdin3) ELSE stdin3
    /\ stdin4' = IF ffmpegProcess = "running" THEN Broken(stdin4) ELSE stdin4
    /\ UNCHANGED <<videoStream, audioStream>>
\* The body of cancel(): ffmpegProcess.kill(); videoStream.destroy();
\* audioStream.destroy().
CancelHigh ==
    /\ ffmpegProcess' = IF ffmpegProcess = "running" THEN "killed"
                        ELSE ffmpegProcess
    /\ stdin3' = IF ffmpegProcess = "running" THEN Broken(stdin3) ELSE stdin3
    /\ stdin4' = IF ffmpegProcess = "running" THEN Broken(stdin4) ELSE stdin4
    /\ videoStream' = Destroyed(videoStream)
    /\ audioStream' = Destroyed(audioStream)

\* The consumer cancels the response stream.
MuxCancel ==
    /\ stream \in {"readable", "closing"}
    /\ cancelled' = TRUE
    /\ calls' = Append(calls, "cancel")
    /\ stream' = "closed"
    /\ queue' = <<>>
    /\ CancelHigh
    /\ UNCHANGED <<staticVars, errorVars, stdout, emitted, enqueued, fedVideo, fedAudio,
                   uncaught>>

\* ------------------------------------------- transfers of a sample video
\* A video with one combined, one video-only and one audio-only rendition.
SampleFormats ==
    WithItags(<<Rendition(TRUE, TRUE, "mp4", L720p, Undefined, Undefined, Undefined),
                Rendition(TRUE, FALSE, "mp4", L1080p, 2, Undefined, Undefined),
                Rendition(FALSE, TRUE, "mp4", NoLabel, Undefined, 2, Undefined)>>)

\* Download has answered 200 with headers h to option o of the sample video's
\* catalog with handler r, which set up transfer t.
Serving(o, r, h, t) ==
    /\ pc = "served"
    /\ analyzeUrl = "https://www.youtube.com/watch?v=a"
    /\ analyzeInfo = Resolved
    /\ downloadInfo = Resolved
    /\ videoDetails = Details(3661, 1500, 2300000)
    /\ videoInfo = VideoInfo(Details(3661, 1500, 2300000))
    /\ videoTitle = TitleExample
    /\ headers = h
    /\ formats = SampleFormats
    /\ allFormats = BuildAllFormats(SampleFormats)
    /\ analyzeStatus = 200
    /\ catalog = SortFormats(BuildAllFormats(SampleFormats))
    /\ request = [url |-> "https://www.youtube.com/watch?v=a", format |-> <<o>>]
    /\ freshFormats = SampleFormats
    /\ downloadStatus = 200
    /\ route = r
    /\ TransferIs(t)

SampleCatalog == SortFormats(BuildAllFormats(SampleFormats))

\* A standard or an audio-only download has started.
InitRelay ==
    \E i \in 1..Len(SampleCatalog) :
        LET o == SampleCatalog[i]
        IN /\ ~o.isHighQuality
           /\ IF o.quality = StrAudioOnly
              THEN Serving(o, "audio",
                           AudioHeaders(SampleFormats[o.itag], TitleExample),
                           AudioTransfer)
              ELSE Serving(o, "standard",
                           StandardHeaders(SampleFormats[o.itag], o, TitleExample),
                           StandardTransfer)

NextRelay == RelayData \/ RelayEnd \/ RelayError \/ RelayCancel \/ ConsumerRead

SpecRelay == InitRelay /\ [][NextRelay]_vars

\* A high-quality download has started.
InitMux ==
    \E i \in 1..Len(SampleCatalog) :
        LET o == SampleCatalog[i]
        IN /\ o.isHighQuality
           /\ Serving(o, "high", HighHeaders(TitleExample), HighTransfer)

NextMux ==
    \/ VideoData \/ VideoEnd \/ VideoError
    \/ AudioData \/ AudioEnd \/ AudioError
    \/ FfmpegOutput \/ FfmpegExit \/ FfmpegFail \/ FfmpegSpawnError
    \/ StdoutEnd \/ MuxCancel \/ ConsumerRead

SpecMux == InitMux /\ [][NextMux]_vars

\* The mux pipeline under fair scheduling: ffmpeg keeps consuming its inputs
\* and exits once both have ended, the end of its output is delivered, and
\* the consumer keeps reading.
SpecMuxFair ==
    /\ SpecMux
    /\ WF_vars(FfmpegExit)
    /\ WF_vars(StdoutEnd)
    /\ WF_vars(ConsumerRead)

\* A download of any of the three kinds has started.
InitTransfer == InitRelay \/ InitMux

NextTransfer ==
    \/ route \in {"standard", "audio"} /\ NextRelay
    \/ route = "high" /\ NextMux

SpecTransfer == InitTransfer /\ [][NextTransfer]_vars

\* ------------------------------------- the details of the sample video
\* Most hours of the durations explored below ten hours.
MaxHours == 2

\* Durations: every combination of the hours, the minutes and the seconds
\* that have one digit, two digits, or are zero.
Durations ==
    {h * 3600 + m * 60 + sec :
        h \in (0..MaxHours) \cup {11},
        m \in {0, 1, 2, 9, 10, 59},
        sec \in {0, 5, 9, 10, 45, 59}}

\* Thousandths at which a quotient is rounded to tenths: on a tenth, just
\* below, on and just above the middle between two tenths, and near 1.
Thousandths == {0, 49, 50, 51, 250, 300, 449, 450, 500, 949, 950, 999}
\* Whole parts of a quotient.
Wholes == {1, 2, 9, 12, 99, 999}
\* View and like counts: below 1000, thousands and millions.
Counts ==
    {0, 7, 950, 999}
    \cup {w * 1000 + t : w \in Wholes, t \in Thousandths}
    \cup {w * 1000000 + t * 1000 : w \in Wholes, t \in Thousandths}
    \cup {999999999}

\* Analyze of the sample video, for the durations and counts above.
AnalyzeSample ==
    /\ pc = "start"
    /\ \E lengthSeconds \in Durations, viewCount \in Counts :
          AnalyzeSucceeds("https://www.youtube.com/watch?v=a", SampleFormats,
                          Details(lengthSeconds, viewCount, viewCount \div 10))
    /\ UNCHANGED <<requestVars, transferVars>>

SpecDetails == Init /\ [][AnalyzeSample]_vars

\* ---------------------------------------------- samples for the size texts
\* Resolutions: every entry of the table of estimateVideoSize, and one
\* (4320) the table does not list.
Resolutions == {144, 240, 360, 480, 720, 1080, 1440, 2160, 4320}
Label(resolution) == NumText(resolution) \o <<"p">>
\* Content lengths: none, just below 1.5 MiB, and 1.5 MiB.
SizedLengths == {Undefined, 1572863, 1572864}
\* No rendition, or one of the given shapes.
Optional(shapes) == {<<>>} \cup {<<s>> : s \in shapes}
\* info.formats of at most one pre-muxed, one video-only and one audio-only
\* rendition, in that order.
SizedLists ==
    {p \o v \o a :
        p \in Optional({Rendition(TRUE, TRUE, "mp4", Label(r), Undefined, Undefined, len) :
                            r \in Resolutions, len \in SizedLengths}),
        v \in Optional({Rendition(TRUE, FALSE, "mp4", Label(r), 1, Undefined, len) :
                            r \in Resolutions, len \in SizedLengths}),
        a \in Optional({Rendition(FALSE, TRUE, "mp4", NoLabel, Undefined, 1, len) :
                            len \in SizedLengths})}

AnalyzeSized ==
    /\ pc = "start"
    /\ \E shapes \in SizedLists :
          AnalyzeSucceeds("https://www.youtube.com/watch?v=a", WithItags(shapes),
                          Details(45, 950, Undefined))
    /\ UNCHANGED <<requestVars, transferVars>>

SpecSizes == Init /\ [][AnalyzeSized]_vars

\* ================================================================= claims
\* ---- helpers of the claims: an option read as a client reads it
IsSplitOption(o) == o.videoItag # Undefined
IsAudioOption(o) == o.quality = StrAudioOnly
EndsWith(s, suffix) ==
    /\ Len(s) >= Len(suffix)
    /\ SubSeq(s, Len(s) - Len(suffix) + 1, Len(s)) = suffix
\* The quality label an option shows, without the "(High Quality)" suffix.
ShownLabel(o) ==
    IF EndsWith(o.quality, StrHighQuality)
    THEN SubSeq(o.quality, 1, Len(o.quality) - Len(StrHighQuality))
    ELSE o.quality
\* The key the spec gives an option.
OptionKey(o) ==
    IF IsSplitOption(o) THEN ShownLabel(o) \o StrHigh
    ELSE IF IsAudioOption(o) THEN StrAudioOnlyKey
    ELSE o.quality \o StrCombined
\* Position at which an option was inserted into allFormats.
InsertIndex(o) == CHOOSE k \in 1..Len(allFormats) : allFormats[k].value = o

\* C1: the catalog Analyze returns holds no two options with the same key
\* (<quality>_combined, <quality>_high, audio_only), and at most one
\* audio-only option.
C1_UniqueKeys ==
    /\ \A i, j \in 1..Len(catalog) :
          i # j => OptionKey(catalog[i]) # OptionKey(catalog[j])
    /\ Cardinality({i \in 1..Len(catalog) : IsAudioOption(catalog[i])}) <= 1

\* C1 witness: a list with two combined formats of one quality label and an
\* audio-only format has been analysed.
C1_Witness ==
    /\ pc = "analyzed"
    /\ \E i, j \in 1..Len(formats) :
          /\ i < j
          /\ IsCombinedFormat(formats[i])
          /\ IsCombinedFormat(formats[j])
          /\ formats[i].qualityLabel = formats[j].qualityLabel
    /\ \E i \in 1..Len(catalog) : IsAudioOption(catalog[i])
    /\ Len(catalog) = 2

\* C2: a split-stream option is high quality iff the resolution parsed from
\* the quality label of its video rendition is >= 1080; combined and
\* audio-only options never are; the shown quality ends in "(High Quality)"
\* exactly when the option is high quality.
C2_HighQualityFlag ==
    \A i \in 1..Len(catalog) :
        LET o == catalog[i]
        IN /\ IsSplitOption(o) =>
                (o.isHighQuality <=>
                    extractResolution(formats[o.videoItag].qualityLabel) >= 1080)
           /\ IsSplitOption(o) =>
                extractResolution(o.quality) =
                    extractResolution(formats[o.videoItag].qualityLabel)
           /\ ~IsSplitOption(o) => ~o.isHighQuality
           /\ o.isHighQuality <=> EndsWith(o.quality, StrHighQuality)

\* C2 witness: a catalog with a high-quality split option, a split option
\* below 1080 and an audio-only option.
C2_Witness ==
    /\ pc = "analyzed"
    /\ \E i \in 1..Len(catalog) :
          IsSplitOption(catalog[i]) /\ catalog[i].isHighQuality
    /\ \E i \in 1..Len(catalog) :
          IsSplitOption(catalog[i]) /\ ~catalog[i].isHighQuality
    /\ \E i \in 1..Len(catalog) : IsAudioOption(catalog[i])

\* C3: the returned list holds exactly the options of allFormats, ordered:
\* audio-only never before another option; otherwise by descending
\* resolution; at equal resolution high quality never after non-high
\* quality; options equal on all of these in insertion order.
C3_SortOrder ==
    /\ Len(catalog) = Len(allFormats)
    /\ \A k \in 1..Len(allFormats) :
          \E i \in 1..Len(catalog) : catalog[i] = allFormats[k].value
    /\ \A i, j \in 1..Len(catalog) :
          i < j =>
            LET x == catalog[i]
                y == catalog[j]
                sameKind == IsAudioOption(x) <=> IsAudioOption(y)
            IN /\ ~(IsAudioOption(x) /\ ~IsAudioOption(y))
               /\ sameKind => x.resolution >= y.resolution
               /\ (sameKind /\ x.resolution = y.resolution) =>
                    ~(~x.isHighQuality /\ y.isHighQuality)
               /\ (/\ sameKind
                   /\ x.resolution = y.resolution
                   /\ x.isHighQuality = y.isHighQuality) =>
                    InsertIndex(x) < InsertIndex(y)

\* C3 witness: the sort moved a high-quality option in front of the combined
\* option of the same resolution that was inserted before it, with the
\* audio-only option last.
C3_Witness ==
    /\ pc = "analyzed"
    /\ Len(catalog) = 3
    /\ catalog[1].isHighQuality
    /\ ~IsSplitOption(catalog[2])
    /\ catalog[2].resolution = catalog[1].resolution
    /\ InsertIndex(catalog[2]) < InsertIndex(catalog[1])
    /\ IsAudioOption(catalog[3])

\* The Download request passed validation and getInfo: a handler was called.
Dispatched == pc = "served" /\ route # "none"

\* C4: Download routes by strict priority: isHighQuality takes the mux
\* handler (even for quality "Audio Only"), else "Audio Only" takes the audio
\* handler, else the standard handler; the handler taken is the only one
\* that opened anything.
C4_Routing ==
    Dispatched =>
        LET format == request.format[1]
        IN /\ format.isHighQuality => route = "high"
           /\ (~format.isHighQuality /\ format.quality = StrAudioOnly) =>
                route = "audio"
           /\ (~format.isHighQuality /\ format.quality # StrAudioOnly) =>
                route = "standard"
           /\ route = "audio" => videoStream = "none" /\ ffmpegProcess = "none"
           /\ route = "standard" => audioStream = "none" /\ ffmpegProcess = "none"

\* C4 witness: an option with isHighQuality set and quality "Audio Only" was
\* routed.
C4_Witness ==
    /\ Dispatched
    /\ request.format[1].isHighQuality
    /\ request.format[1].quality = StrAudioOnly
    /\ route = "high"

\* C5 (as claimed): an option of the catalog, sent back unchanged while the
\* provider still lists the same renditions, is never answered "format not
\* found".
C5_CatalogOptionResolves ==
    (/\ Dispatched
     /\ \E i \in 1..Len(catalog) : request.format[1] = catalog[i]
     /\ freshFormats = formats)
        => downloadStatus # 404

\* A stream identifier the handler looks up matches no fresh rendition.
LookupMiss ==
    /\ Dispatched
    /\ LET format == request.format[1]
           Listed(itag) == \E k \in 1..Len(freshFormats) :
                              freshFormats[k].itag = itag
       IN IF route = "high"
          THEN ~Listed(format.videoItag) \/ ~Listed(format.audioItag)
          ELSE ~Listed(format.itag)

\* C6: on a lookup miss Download answers 404 and has opened no provider
\* stream and spawned no process.
C6_MissIs404 == LookupMiss => downloadStatus = 404 /\ NoTransfer

\* C6 witness: a high-quality option whose video rendition expired (its audio
\* rendition still listed) was requested.
C6_Witness ==
    /\ LookupMiss
    /\ route = "high"
    /\ \E i \in 1..Len(catalog) : request.format[1] = catalog[i]
    /\ ~\E k \in 1..Len(freshFormats) :
          freshFormats[k].itag = request.format[1].videoItag
    /\ \E k \in 1..Len(freshFormats) :
          freshFormats[k].itag = request.format[1].audioItag

\* C7: in the mux pipeline, once the consumer has cancelled, ffmpeg is not
\* running and neither ytdl stream is still flowing; the state in which
\* cancelled first holds is the one the cancel step produced.
C7_CancelTearsDown ==
    (route = "high" /\ cancelled) =>
        /\ ffmpegProcess # "running"
        /\ videoStream # "flowing"
        /\ audioStream # "flowing"

\* C7 witness: a transfer that had fed ffmpeg and enqueued output was
\* cancelled: ffmpeg killed, both streams destroyed.
C7_Witness ==
    /\ route = "high"
    /\ cancelled
    /\ ffmpegProcess = "killed"
    /\ videoStream = "destroyed"
    /\ audioStream = "destroyed"
    /\ fedVideo > 0
    /\ enqueued # <<>>

\* C8 (as claimed): in the mux pipeline, when a source stream has emitted an
\* error, ffmpeg is terminated, the other source is no longer flowing and
\* the response stream is errored.
C8_SourceErrorTearsDown ==
    (route = "high" /\ (videoStream = "errored" \/ audioStream = "errored")) =>
        /\ ffmpegProcess # "running"
        /\ videoStream # "flowing"
        /\ audioStream # "flowing"
        /\ stream = "errored"

\* C9 (as claimed): in the mux pipeline, when ffmpeg failed to start or exited
\* with a failure, neither source stream is still flowing, and the response
\* stream is not closed as if the download had completed.
C9_FfmpegFailureAborts ==
    (route = "high" /\ ffmpegProcess \in {"failed", "spawnError"}) =>
        /\ videoStream # "flowing"
        /\ audioStream # "flowing"
        /\ ~cancelled => stream \notin {"closing", "closed"}

IsPrefix(s, t) == Len(s) <= Len(t) /\ SubSeq(t, 1, Len(s)) = s

\* C10: in the single-stream relay the chunks enqueued are at every moment a
\* prefix of the chunks the source emitted, and once the source has ended
\* close() has been called with every emitted chunk enqueued.
C10_RelayForwardsInOrder ==
    route \in {"standard", "audio"} =>
        /\ IsPrefix(enqueued, emitted)
        /\ Source = "ended" =>
              /\ stream \in {"closing", "closed"}
              /\ enqueued = emitted

\* C10 witness: the source emitted two different chunks and ended while the
\* consumer had not read them all.
C10_Witness ==
    /\ route \in {"standard", "audio"}
    /\ Source = "ended"
    /\ Len(emitted) >= 2
    /\ emitted[1] # emitted[2]
    /\ enqueued = emitted
    /\ stream = "closing"
    /\ ~cancelled

\* The single-stream relay is serving the request.
InRelay == route \in {"standard", "audio"}

\* C11: in the single-stream relay, once the source has emitted an error the
\* response stream is in the error state holding that same error (so it is
\* neither closed cleanly nor left open), and the step in which the source
\* errors changes neither the status nor the headers already committed.
C11_SourceErrorAborts ==
    /\ []((InRelay /\ Source = "errored") =>
            (stream = "errored" /\ storedError = lastError))
    /\ [][(InRelay /\ Source # "errored" /\ Source' = "errored") =>
            (downloadStatus' = downloadStatus /\ headers' = headers)]_vars

\* C11 witness: the source errored after chunks had been relayed, and the
\* response stream holds the error the source emitted.
C11_Witness ==
    /\ InRelay
    /\ Source = "errored"
    /\ enqueued # <<>>
    /\ lastError = "ECONNRESET"
    /\ storedError = "ECONNRESET"
    /\ stream = "errored"

\* C12: in the single-stream relay, the step in which the consumer cancels
\* destroys the source if it was still flowing, the source never flows while
\* the transfer is cancelled, and no chunk is enqueued after the cancel.
C12_CancelDestroysSource ==
    /\ []((InRelay /\ cancelled) => Source # "flowing")
    /\ [][(InRelay /\ ~cancelled /\ cancelled' /\ Source = "flowing") =>
            Source' = "destroyed"]_vars
    /\ [][(InRelay /\ cancelled) => enqueued' = enqueued]_vars

\* C12 witness: the consumer cancelled a transfer whose source had emitted
\* chunks and had more to emit; the source is destroyed.
C12_Witness ==
    /\ InRelay
    /\ cancelled
    /\ Source = "destroyed"
    /\ enqueued # <<>>
    /\ Len(emitted) < MaxChunks

\* C13 (as claimed): the chunks enqueued on the response stream and not yet
\* taken by the consumer never exceed the stream's high-water mark, however
\* slowly the consumer reads.
C13_BackpressureBound == Len(queue) <= HighWaterMark

\* The status the error taxonomy gives a failure of the metadata lookup.
TaxonomyStatus(message) ==
    IF Includes(message, StrVideoUnavailable) THEN 404
    ELSE IF Includes(message, StrAgeRestricted)
            \/ Includes(message, StrSignInToConfirm) THEN 403
    ELSE 500

\* C14 (as claimed): when the metadata lookup fails, Analyze and Download
\* both answer 404 for an unavailable video, 403 for an age-restricted one,
\* 403 for one that requires sign-in and 500 otherwise, so that the same
\* failure never gets two different codes.
C14_SameErrorCodes ==
    /\ analyzeInfo.threw =>
          /\ analyzeStatus = TaxonomyStatus(analyzeInfo.message)
          /\ analyzeStatus = DownloadErrorStatus(analyzeInfo.message)
    /\ downloadInfo.threw =>
          /\ downloadStatus = TaxonomyStatus(downloadInfo.message)
          /\ downloadStatus = AnalyzeErrorStatus(downloadInfo.message)

\* C15: a request without a URL, with a URL that ytdl.validateURL rejects or
\* (Download) without a format is answered 400, with getInfo not called, no
\* provider stream opened and no process spawned.
C15_BadRequestIs400 ==
    /\ (pc # "start" /\ (analyzeUrl = "" \/ ~validateURL(analyzeUrl))) =>
          /\ analyzeStatus = 400
          /\ ~analyzeInfo.called
          /\ NoTransfer
    /\ (/\ pc = "served"
        /\ \/ request.url = ""
           \/ ~validateURL(request.url)
           \/ request.format = <<>>) =>
          /\ downloadStatus = 400
          /\ ~downloadInfo.called
          /\ NoTransfer

\* C15 witness: a Download request with a valid URL and no format was
\* answered.
C15_Witness ==
    /\ pc = "served"
    /\ validateURL(request.url)
    /\ request.format = <<>>
    /\ downloadStatus = 400

\* Download answered with the stream: a download response.
Streaming == pc = "served" /\ downloadStatus = 200

\* The file name inside `attachment; filename="..."`.
FileName(h) ==
    SubSeq(h.contentDisposition, Len(StrAttachment) + 1,
           Len(h.contentDisposition) - 1)
\* Its title part: what precedes the last "." (the extension follows it).
TitlePart(h) ==
    LET name == FileName(h)
        dots == {i \in 1..Len(name) : name[i] = "."}
    IN SubSeq(name, 1, (CHOOSE i \in dots : \A j \in dots : i >= j) - 1)

\* The sanitized title as the spec words it: the characters other than word
\* characters, whitespace and hyphens are removed, and the words that remain
\* (maximal runs without whitespace) are joined by single underscores.
JoinedWords(title) ==
    LET s == SelectSeq(title,
                 LAMBDA c : IsWordChar(c) \/ IsWhiteSpace(c) \/ c = "-")
        StartsWord(i) ==
            ~IsWhiteSpace(s[i]) /\ (i = 1 \/ IsWhiteSpace(s[i - 1]))
        slots == [q \in 1..(2 * Len(s)) |->
                    LET i == (q + 1) \div 2
                    IN IF q % 2 = 1
                       THEN IF StartsWord(i)
                               /\ \E j \in 1..(i - 1) : ~IsWhiteSpace(s[j])
                            THEN "_" ELSE ""
                       ELSE IF IsWhiteSpace(s[i]) THEN "" ELSE s[i]]
    IN SelectSeq(slots, LAMBDA c : c # "")

C17_FileNameCapped ==
    Streaming => Len(TitlePart(headers)) <= MaxTitleLength

\* The renditions the handler matched in the fresh metadata: the one of
\* format.itag, or on the mux path those of videoItag and audioItag.
Matched ==
    LET format == request.format[1]
    IN IF route = "high"
       THEN {Head(FindByItag(freshFormats, format.videoItag)),
             Head(FindByItag(freshFormats, format.audioItag))}
       ELSE {Head(FindByItag(freshFormats, format.itag))}

\* C18 (as claimed): a download response carries Content-Length exactly when
\* a rendition matched in the fresh metadata reports a byte length, and its
\* value is that length.
C18_ContentLengthWhenReported ==
    Streaming =>
        /\ headers.contentLength # Undefined <=>
              \E m \in Matched : m.contentLength # Undefined
        /\ headers.contentLength # Undefined =>
              \E m \in Matched : headers.contentLength = m.contentLength

\* C18 (amended): a single-stream download response (standard or audio-only)
\* carries Content-Length exactly when the rendition matched in the fresh
\* metadata reports a byte length, and its value is that length; a mux
\* response carries no Content-Length.
C18_SingleStreamContentLength ==
    Streaming =>
        /\ InRelay =>
              \A m \in Matched : headers.contentLength = m.contentLength
        /\ route = "high" => headers.contentLength = Undefined

\* C18 witness: a standard download of a rendition that reports its length
\* was answered with that length.
C18_Witness ==
    /\ Streaming
    /\ route = "standard"
    /\ \E m \in Matched : m.contentLength = 5767168
    /\ headers.contentLength = 5767168

\* ---- helpers of the claims: a formatted text read back
\* The fields of a text separated by ":".
Colons(text) == SelectSeq([i \in 1..Len(text) |-> i], LAMBDA i : text[i] = ":")
Field(text, k) ==
    LET c == <<0>> \o Colons(text) \o <<Len(text) + 1>>
    IN SubSeq(text, c[k] + 1, c[k + 1] - 1)
AllDigits(text) == text # <<>> /\ \A i \in 1..Len(text) : IsDigit(text[i])
\* A number written without leading zeros.
Plain(text) == AllDigits(text) /\ (Len(text) = 1 \/ text[1] # "0")

\* C19: for the seconds s of the video, formatDuration gives M:SS when
\* s < 3600 and H:MM:SS otherwise, with H = s div 3600, M = (s mod 3600) div
\* 60, SS = s mod 60, seconds always two digits, minutes two digits exactly
\* when the hours are present, and the fields adding up to s; 45 gives 0:45,
\* 125 gives 2:05, 3661 gives 1:01:01.
C19_DurationFormat ==
    pc = "analyzed" =>
        LET s == videoDetails.lengthSeconds
            text == videoInfo.duration
            n == Len(Colons(text))
        IN /\ s < 3600 =>
                /\ n = 1
                /\ Plain(Field(text, 1))
                /\ ParseInt(Field(text, 1)) = s \div 60
                /\ Len(Field(text, 2)) = 2 /\ AllDigits(Field(text, 2))
                /\ ParseInt(Field(text, 2)) = s % 60
           /\ s >= 3600 =>
                /\ n = 2
                /\ Plain(Field(text, 1))
                /\ ParseInt(Field(text, 1)) = s \div 3600
                /\ Len(Field(text, 2)) = 2 /\ AllDigits(Field(text, 2))
                /\ ParseInt(Field(text, 2)) = (s % 3600) \div 60
                /\ Len(Field(text, 3)) = 2 /\ AllDigits(Field(text, 3))
                /\ ParseInt(Field(text, 3)) = s % 60
                /\ ParseInt(Field(text, 1)) * 3600
                     + ParseInt(Field(text, 2)) * 60
                     + ParseInt(Field(text, 3)) = s
           /\ s = 45 => text = <<"0", ":", "4", "5">>
           /\ s = 125 => text = <<"2", ":", "0", "5">>
           /\ s = 3661 => text = <<"1", ":", "0", "1", ":", "0", "1">>

\* C19 witness: a video of 1:01:05 (one-digit minutes and seconds under an
\* hours field) was analysed.
C19_Witness ==
    /\ pc = "analyzed"
    /\ videoDetails.lengthSeconds = 3665
    /\ videoInfo.duration = <<"1", ":", "0", "1", ":", "0", "5">>

\* A text "<digits>.<digit>" without leading zeros, and the tenths it denotes.
OneDecimal(text) ==
    /\ Len(text) >= 3
    /\ text[Len(text) - 1] = "."
    /\ IsDigit(text[Len(text)])
    /\ Plain(SubSeq(text, 1, Len(text) - 2))
TenthsOf(text) ==
    10 * ParseInt(SubSeq(text, 1, Len(text) - 2)) + DigitVal(text[Len(text)])
\* t tenths are a nearest value with one decimal place of n / unit.
NearestTenths(t, n, unit) ==
    /\ t * (unit \div 10) - n <= unit \div 20
    /\ n - t * (unit \div 10) <= unit \div 20

\* C20 (as claimed): for the view count n of the video, formatNumber gives
\* the decimal digits of n when n < 1000; v followed by "K" when 1000 <= n <
\* 1000000, v being n / 1000 to one decimal place and always below 1000.0; v
\* followed by "M" when n >= 1000000, v being n / 1000000 to one decimal
\* place; 950 gives 950, 1500 gives 1.5K, 2300000 gives 2.3M.
C20_CountFormat ==
    pc = "analyzed" =>
        LET n == videoDetails.viewCount
            text == videoInfo.views
            v == SubSeq(text, 1, Len(text) - 1)
        IN /\ n < 1000 => Plain(text) /\ ParseInt(text) = n
           /\ (1000 <= n /\ n < 1000000) =>
                /\ text[Len(text)] = "K"
                /\ OneDecimal(v)
                /\ NearestTenths(TenthsOf(v), n, 1000)
                /\ TenthsOf(v) < 10000
           /\ n >= 1000000 =>
                /\ text[Len(text)] = "M"
                /\ OneDecimal(v)
                /\ NearestTenths(TenthsOf(v), n, 1000000)
           /\ n = 950 => text = <<"9", "5", "0">>
           /\ n = 1500 => text = <<"1", ".", "5", "K">>
           /\ n = 2300000 => text = <<"2", ".", "3", "M">>

\* ---- helpers of the claims: the renditions as the spec ranks them
\* A bitrate as the spec ranks it: undefined below every defined one.
RankOf(bitrate) == IF bitrate = Undefined THEN 0 ELSE bitrate
\* The renditions of fs that are candidates for a split-stream option.
Candidates(fs) == {i \in 1..Len(fs) : IsVideoOnlyFormat(fs[i])}

\* C21 (as claimed): the split-stream candidate selection keeps exactly one
\* rendition for each quality label among the video-only mp4 renditions with
\* a label, and the one kept has the highest bitrate of that label (an
\* undefined bitrate never beating a defined one), the earliest in provider
\* order among those tied for it.
C21_BestVideoPerLabel ==
    pc = "analyzed" =>
        LET kept == videoOnlyFormats(formats)
            cands == Candidates(formats)
        IN /\ \A k \in 1..Len(kept) : kept[k].itag \in cands
           /\ \A i \in cands :
                 LET same == {k \in 1..Len(kept) :
                                kept[k].qualityLabel = formats[i].qualityLabel}
                 IN /\ Cardinality(same) = 1
                    /\ \A k \in same :
                          /\ RankOf(kept[k].bitrate) >= RankOf(formats[i].bitrate)
                          /\ RankOf(kept[k].bitrate) = RankOf(formats[i].bitrate)
                                => kept[k].itag <= i


\* The audio-only renditions of fs, by position.
AudioOnly(fs) == {i \in 1..Len(fs) : IsAudioOnlyFormat(fs[i])}
\* An audio bitrate as the spec ranks it: undefined or zero lowest.
AudioRank(f) == IF f.audioBitrate = Undefined THEN 0 ELSE f.audioBitrate
\* The audio-only rendition the spec calls the best: the highest audio
\* bitrate, the first in provider order among those tied for it.
BestAudio(fs) ==
    CHOOSE i \in AudioOnly(fs) :
        \A j \in AudioOnly(fs) :
            \/ AudioRank(fs[j]) < AudioRank(fs[i])
            \/ AudioRank(fs[j]) = AudioRank(fs[i]) /\ i <= j
\* The options of the catalog that carry an audio stream of their own choice.
AudioCarriers == {k \in 1..Len(catalog) :
                    IsSplitOption(catalog[k]) \/ IsAudioOption(catalog[k])}

\* C22: the catalog has the audio-only option exactly when the raw list has
\* an audio-only rendition, and has split-stream options only then; the
\* audio-only option and every split-stream option then name the same audio
\* stream, the audio-only rendition of the highest audio bitrate (undefined
\* or zero lowest, the first in provider order among ties).
C22_BestAudioShared ==
    pc = "analyzed" =>
        /\ (\E k \in 1..Len(catalog) : IsAudioOption(catalog[k]))
              <=> AudioOnly(formats) # {}
        /\ AudioOnly(formats) = {} => AudioCarriers = {}
        /\ AudioOnly(formats) # {} =>
              /\ \A i \in Candidates(formats) :
                    \E k \in 1..Len(catalog) :
                        /\ IsSplitOption(catalog[k])
                        /\ formats[catalog[k].videoItag].qualityLabel
                              = formats[i].qualityLabel
              /\ \A k \in AudioCarriers :
                    LET a == IF IsSplitOption(catalog[k])
                             THEN catalog[k].audioItag ELSE catalog[k].itag
                    IN a = formats[BestAudio(formats)].itag
\* A list where the best audio rendition is not the first one, next to a
\* split-stream option that shares it.
C22_Witness ==
    /\ pc = "analyzed"
    /\ \E k \in 1..Len(catalog) : IsSplitOption(catalog[k])
    /\ \E k \in 1..Len(catalog) : IsAudioOption(catalog[k])
    /\ Cardinality(AudioOnly(formats)) >= 2
    /\ BestAudio(formats) # CHOOSE i \in AudioOnly(formats) :
                                \A j \in AudioOnly(formats) : i <= j


\* ---- helpers of the claims: the sizes as the spec states them
MB == 1024 * 1024
\* The whole number of MB nearest to a byte count, a half rounding up.
NearestMB(bytes) ==
    CHOOSE m \in 0..(bytes \div MB + 1) :
        /\ 2 * (m * MB - bytes) <= MB
        /\ 2 * (bytes - m * MB) < MB
\* The table of the spec: resolution, then MB of video.
SizeTable ==
    <<<<144, 2>>, <<240, 4>>, <<360, 8>>, <<480, 15>>,
      <<720, 25>>, <<1080, 50>>, <<1440, 80>>, <<2160, 150>>>>
TableValue(resolution) ==
    IF \E k \in 1..Len(SizeTable) : SizeTable[k][1] = resolution
    THEN SizeTable[CHOOSE k \in 1..Len(SizeTable) : SizeTable[k][1] = resolution][2]
    ELSE 10
\* MB of a video rendition: exact when its length is reported, else the table.
VideoMB(f) ==
    IF f.contentLength # Undefined THEN NearestMB(f.contentLength)
    ELSE TableValue(extractResolution(f.qualityLabel))
\* MB of an audio rendition: exact when its length is reported, else 3.
AudioMB(f) ==
    IF f.contentLength # Undefined THEN NearestMB(f.contentLength) ELSE 3

\* C23: a pre-muxed option shows the rendition's exact length rounded to MB,
\* else the table value of its resolution with no audio add-on; a
\* split-stream option shows the video size (exact or table) plus the audio
\* size (exact or 3 MB); the audio-only option shows the exact audio size or
\* 3 MB; the table is 144->2 ... 2160->150 and 10 for any other resolution.
C23_SizesShown ==
    pc = "analyzed" =>
        \A k \in 1..Len(catalog) :
            LET o == catalog[k]
            IN o.filesize =
                 IF IsAudioOption(o) THEN SizeText(AudioMB(formats[o.itag]))
                 ELSE IF IsSplitOption(o)
                 THEN SizeText(VideoMB(formats[o.videoItag])
                               + AudioMB(formats[o.audioItag]))
                 ELSE SizeText(VideoMB(formats[o.itag]))
\* A pre-muxed option sized from the table's default, next to a split-stream
\* option sized from an exact video length and the 3 MB audio default.
C23_Witness ==
    /\ pc = "analyzed"
    /\ \E k \in 1..Len(catalog) :
          /\ ~IsSplitOption(catalog[k]) /\ ~IsAudioOption(catalog[k])
          /\ formats[catalog[k].itag].contentLength = Undefined
          /\ catalog[k].filesize = SizeText(10)
    /\ \E k \in 1..Len(catalog) :
          /\ IsSplitOption(catalog[k])
          /\ formats[catalog[k].videoItag].contentLength = 1572864
          /\ formats[catalog[k].audioItag].contentLength = Undefined
          /\ catalog[k].filesize = SizeText(5)


\* ---- helpers of the claims: pre-muxed options
IsPreMuxedOption(o) == ~IsSplitOption(o) /\ ~IsAudioOption(o)

\* C26 (as claimed): in the list Analyze returns, a split-stream option comes
\* before every pre-muxed option of the same resolution, below 1080 as well
\* as at 1080 and above.
C26_SplitBeforePreMuxed ==
    pc = "analyzed" =>
        \A i, j \in 1..Len(catalog) :
            /\ IsPreMuxedOption(catalog[i])
            /\ IsSplitOption(catalog[j])
            /\ catalog[i].resolution = catalog[j].resolution
            => j < i


\* ---- helpers of the claims: the calls a transfer has made
TerminalCalls == SelectSeq(calls, LAMBDA c : c \in {"close", "error"})
Teardowns == SelectSeq(calls, LAMBDA c : c = "cancel")

\* C24: in every execution of a transfer (relay or mux), whatever the order
\* of the source's data, end and error events, the subprocess's error and
\* end of output, and the consumer's cancel, the controller receives at most
\* one terminal call (close or error), no chunk is enqueued after a terminal
\* call or after cancel, and the upstream resources are torn down at most
\* once.
C24_OneTerminalCall ==
    /\ [](Len(TerminalCalls) <= 1 /\ Len(Teardowns) <= 1)
    /\ [][calls # <<>> => enqueued' = enqueued]_vars
\* A mux transfer the consumer cancelled, whose output then delivered a
\* chunk (not enqueued) and ended (the one terminal call).
C24_Witness ==
    /\ route = "high"
    /\ calls = <<"cancel", "close">>
    /\ Len(emitted) > Len(enqueued)


\* ---- helpers of the claims: the ends of the mux pipeline
BothEnded == videoStream = "ended" /\ audioStream = "ended"
\* ffmpeg was started, so that there is a subprocess to consume the inputs.
Started == ffmpegProcess # "spawnError"
OutputClosed == stdout = "ended" /\ stream = "closed"

\* C25: in the mux pipeline a source that ends first does not block the
\* other: its own input channel of ffmpeg is closed, the other source and
\* its channel are left as they are and can still be fed; and, under fair
\* scheduling with an ffmpeg that was started and keeps consuming, once both
\* sources have ended the output of ffmpeg reaches its end and the response
\* stream is eventually closed.
C25_EndsDoNotBlock ==
    /\ [][/\ videoStream = "flowing" /\ videoStream' = "ended"
             => stdin3' # "open" /\ stdin4' = stdin4 /\ audioStream' = audioStream
          /\ audioStream = "flowing" /\ audioStream' = "ended"
             => stdin4' # "open" /\ stdin3' = stdin3 /\ videoStream' = videoStream]_vars
    /\ [](/\ videoStream = "ended" /\ audioStream = "flowing"
             /\ ffmpegProcess = "running" /\ fedAudio < MaxChunks
             => ENABLED AudioData
          /\ audioStream = "ended" /\ videoStream = "flowing"
             /\ ffmpegProcess = "running" /\ fedVideo < MaxChunks
             => ENABLED VideoData)
    /\ (BothEnded /\ Started) ~> OutputClosed
\* Video ended before any of it was fed, audio was fed to its end, ffmpeg
\* exited by itself and the response stream closed without a cancel.
C25_Witness ==
    /\ route = "high"
    /\ BothEnded
    /\ fedVideo = 0
    /\ fedAudio = MaxChunks
    /\ ffmpegProcess = "exited"
    /\ ~cancelled
    /\ OutputClosed
    /\ Len(enqueued) = MaxChunks

====
